---- MODULE Spec2Model ----
(***************************************************************************)
(* Wildfire helicopter dispatch: the greedy path (BasicDispatcher.dispatch) *)
(* and the optimized path                                                   *)
(* (WildfireDispatcher.dispatch_optimized) with the scenario grouper        *)
(* (ScenarioGenerator.group_by_time_proximity), the water-source router     *)
(* (GeoUtils.find_optimal_water_sources), the assignment model              *)
(* (PyomoOptimizer.build_model) and the solution parser                     *)
(* (PyomoOptimizer.parse_solution).                                         *)
(*                                                                          *)
(* Conventions.  Indices are 0-based as in the Python code (helicopter h,   *)
(* fire position f, original fire index); TLA+ sequences are 1-based, so    *)
(* element i of a Python list is s[i + 1].  A coordinate is a pair          *)
(* <<lat, lng>> of integers and the distance between two coordinates is a   *)
(* metric on those pairs.  Durations are exact rationals kept as integers   *)
(* in units of 1/TimeScale minute, TimeScale being a common multiple of     *)
(* every speed of the fleet, so no division rounds.                         *)
(***************************************************************************)
EXTENDS Integers, Sequences, FiniteSets, TLC

\* Largest number of fires in one batch
MaxFires == 3
\* Largest number of helicopters in the fleet
MaxHeli == 2

\* the value None of Python, a record with no field of a solved model
None == [none |-> TRUE]

---------------------------------------------------------------------------
(* Configuration (config.json, read through ConfigManager)                 *)

scenario_time_window_minutes == 10
golden_time_minutes == 5
fuel_rate == 1
big_penalty == 10
max_helicopter_range_km == 4
\* simulation.fire_helicopter_needs: the options of positive weight
fire_needs_options == {1, 2, 3}

---------------------------------------------------------------------------
(* Input data (the CSV files and the shapefile, read through DataLoader)    *)

VARIABLES
    helipads,       \* what load_helipads returned: the base directory, (lat, lng, name)
    water_pts       \* what load_water_sources returned: (lat, lng)

\* the helipad file: (lat, lng, name)
HelipadCatalog == << <<0, 0, "PadWest">>, <<10, 0, "PadEast">> >>

\* the water source shapefile: (lat, lng)
WaterCatalog == << <<1, 0>>, <<2, 1>>, <<9, 0>>, <<4, 4>> >>

\* what load_helipads can return: the rows of a helipad file, or [] when the
\* file is missing or unreadable
HelipadTables == {SubSeq(HelipadCatalog, 1, n) : n \in 0..Len(HelipadCatalog)}

\* another water source shapefile: two of its sources lie on the way from
\* PadWest to a fire
WaterCatalogOnTheWay == << <<1, 0>>, <<2, 0>>, <<9, 0>>, <<4, 4>> >>

\* what load_water_sources can return: the points of a shapefile, or [] when
\* the file is missing or unreadable
WaterTables == {<<>>, WaterCatalog, WaterCatalogOnTheWay}

\* rows of the detailed helicopter table (set_helis merged with the specs)
HeliCatalog ==
    { [model_nm |-> "Light", base |-> 0, speed_w1 |-> 2, speed_w2 |-> 1,
       efficiency |-> 1, time_limit |-> 4, supp_capa |-> 1],
      [model_nm |-> "Heavy", base |-> 1, speed_w1 |-> 1, speed_w2 |-> 1,
       efficiency |-> 2, time_limit |-> 30, supp_capa |-> 2] }

\* rows of the fire table; date is a day number, time is <<hour, minute>>
FireCatalog ==
    { [name |-> "A", lat |-> 2, lng |-> 0, date |-> 0, time |-> <<23, 44>>, intensity |-> 1],
      [name |-> "B", lat |-> 3, lng |-> 0, date |-> 0, time |-> <<23, 55>>, intensity |-> 2],
      [name |-> "C", lat |-> 8, lng |-> 0, date |-> 1, time |-> <<0, 5>>,   intensity |-> 0],
      [name |-> "D", lat |-> 5, lng |-> 0, date |-> 1, time |-> <<0, 15>>,  intensity |-> 2] }

\* rows of the helicopter file (helinfo): one row per base
HeliInfoWest == [name |-> "West", lat |-> 0, lng |-> 0, helicopters |-> 2, model |-> "KA-32"]
HeliInfoMid == [name |-> "Mid", lat |-> 4, lng |-> 0, helicopters |-> 1, model |-> "S-64"]
HeliInfoEast == [name |-> "East", lat |-> 10, lng |-> 0, helicopters |-> 1, model |-> "KA-32"]

\* what load_helicopters can return: the rows of a helicopter file, or an empty
\* frame when the file is missing or unreadable
HeliInfoTables ==
    { <<>>,
      <<HeliInfoWest, HeliInfoMid, HeliInfoEast>>,
      <<HeliInfoEast, HeliInfoMid, HeliInfoWest>>,
      <<HeliInfoWest, HeliInfoEast>> }

RECURSIVE SeqsUpTo(_, _)
\* all sequences over S of length at most n
SeqsUpTo(S, n) ==
    IF n = 0 THEN {<<>>}
    ELSE LET shorter == SeqsUpTo(S, n - 1)
         IN  shorter \cup {Append(s, x) : s \in {t \in shorter : Len(t) = n - 1}, x \in S}

Batches == SeqsUpTo(FireCatalog, MaxFires)
Fleets == SeqsUpTo(HeliCatalog, MaxHeli) \ {<<>>}

---------------------------------------------------------------------------
(* Helpers on numbers and sequences                                        *)

Abs(x) == IF x < 0 THEN -x ELSE x

RECURSIVE ProductOf(_)
ProductOf(S) ==
    IF S = {} THEN 1
    ELSE LET x == CHOOSE y \in S : TRUE IN x * ProductOf(S \ {x})

RECURSIVE SumTo(_, _)
\* the sum of g[0], ..., g[n - 1]
SumTo(g, n) == IF n = 0 THEN 0 ELSE g[n - 1] + SumTo(g, n - 1)

MinOf(S) == CHOOSE m \in S : \A n \in S : m <= n

RECURSIVE FunctionsWith(_, _)
\* all functions g on the finite set D with g[x] \in Choice[x]
FunctionsWith(Choice, D) ==
    IF D = {} THEN {<<>>}
    ELSE LET x == CHOOSE y \in D : TRUE
         IN  {g @@ (x :> v) : g \in FunctionsWith(Choice, D \ {x}), v \in Choice[x]}

RECURSIVE InsertByKey(_, _)
\* the pair x = <<element, key>> put behind every pair of the sorted s whose key is <= its key
InsertByKey(s, x) ==
    IF s = <<>> THEN <<x>>
    ELSE IF Head(s)[2] <= x[2] THEN <<Head(s)>> \o InsertByKey(Tail(s), x)
    ELSE <<x>> \o s

RECURSIVE SortPairs(_)
\* <<element, key>> pairs in ascending key order, equal keys keeping their order
SortPairs(s) ==
    IF s = <<>> THEN <<>>
    ELSE InsertByKey(SortPairs(SubSeq(s, 1, Len(s) - 1)), s[Len(s)])

\* list.sort(key=...) / sorted(..., key=...): s in ascending order of keys[i], stable
StableSort(s, keys) ==
    LET sorted == SortPairs([i \in 1..Len(s) |-> <<s[i], keys[i]>>])
    IN  [i \in 1..Len(s) |-> sorted[i][1]]

---------------------------------------------------------------------------
(* GeoUtils                                                                *)

\* geodesic(loc1, loc2).kilometers: a symmetric metric on coordinates
calculate_distance(loc1, loc2) == Abs(loc1[1] - loc2[1]) + Abs(loc1[2] - loc2[2])

\* the offset of a dummy water source from its fire (0.01 degree), one coordinate unit
dummy_offset == 1

\* mutant: every water source is a candidate, not only the 3 nearest
nearest_all(fire_loc, waters) ==
    LET dist_list == [w \in 1..Len(waters) |->
                         <<waters[w], calculate_distance(fire_loc, waters[w])>>]
    IN  StableSort(dist_list, [w \in 1..Len(waters) |-> dist_list[w][2]])

\* nearest_3 = sorted(dist_list, key=lambda x: x[1])[:3], dist_list holding
\* one (water_loc, dist_km) pair per water source, in catalog order
nearest_3(fire_loc, waters) ==
    LET dist_list == [w \in 1..Len(waters) |->
                         <<waters[w], calculate_distance(fire_loc, waters[w])>>]
        sorted == StableSort(dist_list, [w \in 1..Len(waters) |-> dist_list[w][2]])
    IN  SubSeq(sorted, 1, IF Len(sorted) < 3 THEN Len(sorted) ELSE 3)

\* the candidate's (dist_hw, dist_fw, dist_fh) and their total
combo_of(heli_loc, fire_loc, cand) ==
    LET dist_hw == calculate_distance(heli_loc, cand[1])
        dist_fh == calculate_distance(fire_loc, heli_loc)
    IN  <<dist_hw, cand[2], dist_fh>>

total_dist(combo) == combo[1] + combo[2] + combo[3]

RECURSIVE best_combo_last(_, _, _, _, _)
\* mutant: a candidate with an equal total replaces the best
best_combo_last(heli_loc, fire_loc, cands, k, best) ==
    IF k > Len(cands) THEN best[2]
    ELSE LET combo == combo_of(heli_loc, fire_loc, cands[k])
         IN  IF best[1] = -1 \/ total_dist(combo) <= best[1]
             THEN best_combo_last(heli_loc, fire_loc, cands, k + 1, <<total_dist(combo), combo>>)
             ELSE best_combo_last(heli_loc, fire_loc, cands, k + 1, best)

RECURSIVE best_combo(_, _, _, _, _)
\* the loop over nearest_3: best holds (best_val, best_combo), best_val = -1 standing
\* for float('inf'); a candidate replaces the best only when strictly smaller
best_combo(heli_loc, fire_loc, cands, k, best) ==
    IF k > Len(cands) THEN best[2]
    ELSE LET combo == combo_of(heli_loc, fire_loc, cands[k])
         IN  IF best[1] = -1 \/ total_dist(combo) < best[1]
             THEN best_combo(heli_loc, fire_loc, cands, k + 1, <<total_dist(combo), combo>>)
             ELSE best_combo(heli_loc, fire_loc, cands, k + 1, best)

\* mutant: no dummy source is synthesized
dummy_water_pts_none(fire_coords) == <<>>

\* water_pts = [(lat + 0.01, lng + 0.01) for lat, lng in fire_coords]
dummy_water_pts(fire_coords) ==
    [f \in 1..Len(fire_coords) |->
        <<fire_coords[f][1] + dummy_offset, fire_coords[f][2] + dummy_offset>>]

\* find_optimal_water_sources: legs[h][f] = (d1[h][f], d2[h][f], d3[h][f]), h and f
\* 0-based; the three matrices are empty when there is no fire or no helicopter
find_optimal_water_sources(fire_coords, waters, locs) ==
    IF fire_coords = <<>> \/ locs = <<>> THEN <<>>
    ELSE LET pts == IF waters = <<>> THEN dummy_water_pts(fire_coords) ELSE waters
         IN  [h \in 0..(Len(locs) - 1) |->
                [f \in 0..(Len(fire_coords) - 1) |->
                    best_combo(locs[h + 1], fire_coords[f + 1],
                               nearest_3(fire_coords[f + 1], pts), 1, <<-1, <<0, 0, 0>>>>)]]

---------------------------------------------------------------------------
(* ScenarioGenerator                                                       *)

\* datetime.strptime(date + " " + time, "%Y-%m-%d %H:%M"), as minutes since day 0, 00:00
parse_datetime(date, time) == (date * 24 + time[1]) * 60 + time[2]

\* temp_list before the sort: (index, datetime) pairs, index 0-based
temp_list_of(fire_points) ==
    [i \in 1..Len(fire_points) |->
        <<i - 1, parse_datetime(fire_points[i].date, fire_points[i].time)>>]

\* mutant: a gap equal to the window starts a new group
within_window_strict(prev_dt, dt) == dt - prev_dt < scenario_time_window_minutes

\* (dt - prev_dt).total_seconds() / 60.0 <= time_window
within_window(prev_dt, dt) == dt - prev_dt <= scenario_time_window_minutes

\* mutant: the positions inside the group instead of the original indices
indices_of_positions(current_set) == [j \in 1..Len(current_set) |-> j - 1]

\* [x[0] for x in current_set]
indices_of(current_set) == [j \in 1..Len(current_set) |-> current_set[j][1]]

RECURSIVE group_loop(_, _, _, _)
\* the loop over the sorted temp_list, from element k on, and the final append
group_loop(temp_list, k, scenario_sets, current_set) ==
    IF k > Len(temp_list)
    THEN IF current_set # <<>> THEN Append(scenario_sets, indices_of(current_set))
         ELSE scenario_sets
    ELSE IF current_set = <<>>
         THEN group_loop(temp_list, k + 1, scenario_sets, <<temp_list[k]>>)
         ELSE IF within_window(current_set[Len(current_set)][2], temp_list[k][2])
              THEN group_loop(temp_list, k + 1, scenario_sets,
                              Append(current_set, temp_list[k]))
              ELSE group_loop(temp_list, k + 1,
                              Append(scenario_sets, indices_of(current_set)),
                              <<temp_list[k]>>)

group_by_time_proximity(fire_points) ==
    IF fire_points = <<>> THEN <<>>
    ELSE LET temp_list == temp_list_of(fire_points)
             sorted == StableSort(temp_list, [i \in 1..Len(temp_list) |-> temp_list[i][2]])
         IN  group_loop(sorted, 1, <<>>, <<>>)

---------------------------------------------------------------------------
(* PyomoOptimizer                                                          *)

RECURSIVE heli_locs_loop(_, _, _)
\* the loop of _init_parameters over heli_df["base"]: it returns at the first
\* base index outside the helipads, keeping the locations found so far
heli_locs_loop(df, k, locs) ==
    IF k > Len(df) THEN locs
    ELSE LET base_idx == df[k].base
         IN  IF 0 <= base_idx /\ base_idx < Len(helipads)
             THEN heli_locs_loop(df, k + 1,
                      Append(locs, <<helipads[base_idx + 1][1], helipads[base_idx + 1][2]>>))
             ELSE locs

\* __init__: heli_locs after construction
init_heli_locs(df) ==
    IF df # <<>> /\ helipads # <<>> THEN heli_locs_loop(df, 1, <<>>) ELSE <<>>

\* a common multiple of every speed: durations are kept in 1/TimeScale minutes
TimeScale == ProductOf({r.speed_w1 : r \in HeliCatalog} \cup {r.speed_w2 : r \in HeliCatalog})

\* d / speed, in 1/TimeScale minutes
Duration(d, speed) == (d * TimeScale) \div speed

\* time_hf_list[h][f]
time_hf_of(df, d, h, f) ==
    Duration(d[h][f][1], df[h + 1].speed_w1) + Duration(d[h][f][2], df[h + 1].speed_w2)
        + Duration(d[h][f][3], df[h + 1].speed_w1)

\* arrival_time_hf_list[h][f]
arrival_time_hf_of(df, d, h, f) ==
    Duration(d[h][f][1], df[h + 1].speed_w1) + Duration(d[h][f][2], df[h + 1].speed_w2)

\* cost_hf_list[h][f]
cost_hf_of(df, d, h, f) == fuel_rate * df[h + 1].efficiency * time_hf_of(df, d, h, f)

\* the sets and parameters of the ConcreteModel that build_model declares
model_params(df, locs, fire_indices, difficulties, d) ==
    LET H == 0..(Len(locs) - 1)
        F == 0..(Len(fire_indices) - 1)
    IN  [H |-> H, F |-> F,
         time_hf |-> [p \in H \X F |-> time_hf_of(df, d, p[1], p[2])],
         cost_hf |-> [p \in H \X F |-> cost_hf_of(df, d, p[1], p[2])],
         arrival_time_hf |-> [p \in H \X F |-> arrival_time_hf_of(df, d, p[1], p[2])],
         difficulties |-> [f \in F |-> difficulties[f + 1]],
         SUPP_CAPA |-> [h \in H |-> df[h + 1].supp_capa],
         TIME_LIMIT |-> [h \in H |-> df[h + 1].time_limit]]

\* mutant: the golden time constraint is always skipped
golden_time_rule_skipped(m, assign, h, f) == TRUE

\* Constraint 1: golden time; assign is Assign[h, f]
golden_time_rule(m, assign, h, f) ==
    m.arrival_time_hf[<<h, f>>] > golden_time_minutes * TimeScale => assign = 0

\* Constraint 2: helicopter time limit; assign is Assign[h, f]
time_limit_rule(m, assign, h, f) ==
    m.time_hf[<<h, f>>] > m.TIME_LIMIT[h] * TimeScale => assign = 0

\* mutant: the capacity of every helicopter counts, assigned to the fire or not
suppression_rule_whole_fleet(m, Assign, FireOn, f) ==
    m.difficulties[f] * FireOn[f]
        <= SumTo([h \in m.H |-> m.SUPP_CAPA[h]], Cardinality(m.H))

\* Constraint 3: fire suppression capacity
suppression_rule(m, Assign, FireOn, f) ==
    m.difficulties[f] * FireOn[f]
        <= SumTo([h \in m.H |-> m.SUPP_CAPA[h] * Assign[<<h, f>>]], Cardinality(m.H))

\* mutant: the bound is put on each pair instead of on the sum over the fires
one_assignment_rule_per_pair(m, Assign, h) == \A f \in m.F : Assign[<<h, f>>] <= 1

\* Constraint 4: one helicopter can address only one fire
one_assignment_rule(m, Assign, h) ==
    SumTo([f \in m.F |-> Assign[<<h, f>>]], Cardinality(m.F)) <= 1

\* Linearization constraints 1, 2, 3 on one (h, f): v is AssignFire[h, f]
assignfire_upper_bound1(v, assign) == v <= assign
assignfire_upper_bound2(v, fireon) == v <= fireon
\* mutant: the lower bound is off by one
assignfire_lower_bound_loose(v, assign, fireon) == v >= assign + fireon - 2
assignfire_lower_bound(v, assign, fireon) == v >= assign + fireon - 1

\* mutant: the penalty is put on the addressed fires instead of the unaddressed ones
objective_rule_penalty_on_addressed(m, s) ==
    SumTo([h \in m.H |->
              SumTo([f \in m.F |-> m.cost_hf[<<h, f>>] * s.AssignFire[<<h, f>>]],
                    Cardinality(m.F))], Cardinality(m.H))
        + SumTo([f \in m.F |-> big_penalty * TimeScale * s.FireOn[f]], Cardinality(m.F))

\* the objective, in 1/TimeScale units
objective_rule(m, s) ==
    SumTo([h \in m.H |->
              SumTo([f \in m.F |-> m.cost_hf[<<h, f>>] * s.AssignFire[<<h, f>>]],
                    Cardinality(m.F))], Cardinality(m.H))
        + SumTo([f \in m.F |-> big_penalty * TimeScale * (1 - s.FireOn[f])],
                Cardinality(m.F))

\* The values of the binary variables that satisfy every constraint of the model.
\* The constraints are independent of the order they are imposed in: the golden
\* time and time limit constraints bound one Assign[h, f] each, the one-assignment
\* constraint one row of Assign, the suppression constraint FireOn given Assign,
\* and the three linearization constraints one AssignFire[h, f] given Assign[h, f]
\* and FireOn[f].
feasible_solutions(m) ==
    LET Binary == {0, 1}
        HF == m.H \X m.F
        assign_cells == [p \in HF |->
                            {v \in Binary : /\ golden_time_rule(m, v, p[1], p[2])
                                            /\ time_limit_rule(m, v, p[1], p[2])}]
        assigns == {a \in FunctionsWith(assign_cells, HF) :
                       \A h \in m.H : one_assignment_rule(m, a, h)}
        fireons(a) == {fo \in [m.F -> Binary] : \A f \in m.F : suppression_rule(m, a, fo, f)}
        cells(a, fo) == [p \in HF |->
                            {v \in Binary : /\ assignfire_upper_bound1(v, a[p])
                                            /\ assignfire_upper_bound2(v, fo[p[2]])
                                            /\ assignfire_lower_bound(v, a[p], fo[p[2]])}]
    IN  UNION {UNION {{[Assign |-> a, FireOn |-> fo, AssignFire |-> af] :
                            af \in FunctionsWith(cells(a, fo), HF)} :
                      fo \in fireons(a)} :
               a \in assigns}

\* what solver.solve(model) can load into the model when the termination
\* condition is optimal: a feasible point of minimal objective
optimal_solutions(m) ==
    LET scored == {<<s, objective_rule(m, s)>> : s \in feasible_solutions(m)}
    IN  UNION {UNION {{p[1] : p \in {q \in sc : q[2] = best}} :
                      best \in {MinOf({p[2] : p \in sc})}} :
               sc \in {scored}}

\* "Heli Model" of the placeholder row of an unaddressed fire
Unaddressed == "Unaddressed"

\* a column the row does not set (NaN in the data frame); helicopter numbers start at 1
NaN == 0

\* base_name in parse_solution
base_name_of(df, h) ==
    LET base_idx == df[h + 1].base
    IN  IF 0 <= base_idx /\ base_idx < Len(helipads) THEN helipads[base_idx + 1][3]
        ELSE "UnknownBase"

\* the row parse_solution appends for Assign[h, f] > 0.5 (the rounded legs, time
\* and cost columns are left out)
assignment_row(df, offset_index, h, f) ==
    [FireIndex |-> offset_index + f, HelIndex |-> h + 1,
     HeliModel |-> df[h + 1].model_nm, HeliBase |-> base_name_of(df, h)]

\* the row dispatch_optimized appends for an unassigned fire
placeholder_row(fidx) ==
    [FireIndex |-> fidx, HelIndex |-> NaN, HeliModel |-> Unaddressed, HeliBase |-> "NaN"]

\* df.sort_values(by="Fire Index").reset_index(drop=True); rows of one fire keep their order
sort_by_fire_index(rows) == StableSort(rows, [i \in 1..Len(rows) |-> rows[i].FireIndex])

\* parse_solution: the rows of the pairs with Assign[h, f] > 0.5, h outer and f
\* inner, then sorted by "Fire Index"
parse_solution(df, m, offset_index) ==
    IF m = None THEN <<>>
    ELSE LET nF == Cardinality(m.F)
             pairs == [k \in 1..(Cardinality(m.H) * nF) |-> <<(k - 1) \div nF, (k - 1) % nF>>]
             assigned(p) == m.Assign[p] = 1
             chosen == SelectSeq(pairs, assigned)
         IN  sort_by_fire_index([k \in 1..Len(chosen) |->
                                    assignment_row(df, offset_index, chosen[k][1], chosen[k][2])])

Range(s) == {s[i] : i \in 1..Len(s)}

RECURSIVE SetToSeq(_)
\* the elements of a set of integers in ascending order
SetToSeq(S) == IF S = {} THEN <<>> ELSE <<MinOf(S)>> \o SetToSeq(S \ {MinOf(S)})

\* "Handle unassigned fires": solution_df with the placeholder rows appended
with_unassigned(solution, fire_group) ==
    IF solution # <<>>
    THEN LET assigned_fires == {solution[i].FireIndex : i \in 1..Len(solution)}
             all_fires == Range(fire_group)
             unassigned_fires == SetToSeq(all_fires \ assigned_fires)
         IN  solution \o [k \in 1..Len(unassigned_fires) |-> placeholder_row(unassigned_fires[k])]
    ELSE solution

\* "Clean up and finalize results": sorted by fire id, fire ids shown 1-based
finalize(rows) ==
    IF rows # <<>>
    THEN LET sorted == sort_by_fire_index(rows)
         IN  [i \in 1..Len(sorted) |-> [sorted[i] EXCEPT !.FireIndex = @ + 1]]
    ELSE rows

---------------------------------------------------------------------------
(* BasicDispatcher: the operators of dispatch                              *)

\* "Heli Base" of the two marker rows
NoInitialResponse == "NoInitialResponse"
NoAdditionalDispatch == "NoAdditionalDispatch"

\* heli_copy['distance'] of row b for a fire
distance_of(fire, table, b) ==
    calculate_distance(<<fire.lat, fire.lng>>, <<table[b].lat, table[b].lng>>)

\* mutant: the range filter lets every base through
in_range_all(dist) == TRUE

\* heli_copy['distance'] <= max_range
in_range(dist) == dist <= max_helicopter_range_km

\* the rows of near_heli: the bases that pass the range filter
near_rows(fire, table) == {b \in 1..Len(table) : in_range(distance_of(fire, table, b))}

RECURSIVE Orderings(_)
\* the orders a set of rows can be put in
Orderings(S) ==
    IF S = {} THEN {<<>>}
    ELSE UNION {{<<x>> \o q : q \in Orderings(S \ {x})} : x \in S}

\* mutant: near_heli is not sorted
near_heli_orders_unsorted(fire, table) == Orderings(near_rows(fire, table))

\* near_heli = heli_copy[...].sort_values('distance'): the default sort kind is
\* not stable, so rows at the same distance can come out in any order
near_heli_orders(fire, table) ==
    {o \in Orderings(near_rows(fire, table)) :
        \A i \in 1..(Len(o) - 1) :
            distance_of(fire, table, o[i]) <= distance_of(fire, table, o[i + 1])}

\* near_heli['available'].sum()
available_sum(rows, avail) ==
    LET order == CHOOSE o \in Orderings(rows) : TRUE
    IN  SumTo([k \in 0..(Len(order) - 1) |-> avail[order[k + 1]]], Len(order))

\* the marker row of a fire
marker_row(fire, base) ==
    [FireIndex |-> fire.name, HeliBase |-> base, HeliModel |-> "N/A", HeliCount |-> <<0>>]

\* the row of one base's contribution; "Heli Count" is f"{to_send}/{helicopters}"
dispatch_row(fire, hp, to_send) ==
    [FireIndex |-> fire.name, HeliBase |-> hp.name, HeliModel |-> hp.model,
     HeliCount |-> <<to_send, hp.helicopters>>]

RECURSIVE allocate_loop(_, _, _, _, _, _, _)
\* "Allocate helicopters": the loop over near_heli from row k on; hp['available']
\* is read from near_heli (snapshot), the decrement is written to heli_copy
\* (avail); the result is <<avail, rows logged>>
allocate_loop(fire, table, order, k, need, snapshot, acc) ==
    IF k > Len(order) \/ need <= 0 THEN acc
    ELSE LET b == order[k]
         IN  IF snapshot[b] > 0
             THEN LET to_send == IF need < snapshot[b] THEN need ELSE snapshot[b]
                  IN  allocate_loop(fire, table, order, k + 1, need - to_send, snapshot,
                          <<[acc[1] EXCEPT ![b] = @ - to_send],
                            Append(acc[2], dispatch_row(fire, table[b], to_send))>>)
             ELSE allocate_loop(fire, table, order, k + 1, need, snapshot, acc)

---------------------------------------------------------------------------
(* WildfireDispatcher.dispatch_optimized as a state machine                *)

VARIABLES
    fire_points,    \* the batch of fires passed to dispatch_optimized or dispatch
    heli_df,        \* optimizer.heli_df: the detailed helicopter table
    heli_locs,      \* optimizer.heli_locs
    pc,             \* dispatch_optimized: "start", "loop" (head of the loop over the
                    \* groups), "done"; BasicDispatcher.dispatch: "basic" (before the
                    \* first call), "basic_loop" (head of the loop over the fires),
                    \* "returned"
    scenario_sets,  \* the groups returned by group_by_time_proximity
    gi,             \* number of groups the loop has taken from scenario_sets
    group,          \* the group of the current iteration (original fire indices)
    legs,           \* d1, d2, d3 of the current group: legs[h][f] = (d1, d2, d3)
    model,          \* what build_model returned: None, or the solved model
    solution_df,    \* solution_df of the current iteration
    result_df,      \* result_df, the report
    failed,         \* history: the numbers (1-based) of the groups build_model gave None for
    helicopters_df, \* dispatch: what load_helicopters returned in the last call
    available,      \* dispatch: heli_copy['available'], by row of helicopters_df
    needed,         \* dispatch: the count sampled for the fire processed last
    fi,             \* dispatch: number of fires the loop has processed
    dispatch_log    \* dispatch: dispatch_log, the rows of the returned frame

\* the state of BasicDispatcher.dispatch
basic_vars == <<helicopters_df, available, needed, fi, dispatch_log>>

\* the state of dispatch_optimized and of the optimizer
optimized_vars == <<helipads, water_pts, heli_df, heli_locs, scenario_sets, gi, group, legs,
                    model, solution_df, result_df, failed>>

vars == <<fire_points, heli_df, heli_locs, pc, scenario_sets, gi, group, legs, model,
          solution_df, result_df, failed, helipads, water_pts, basic_vars>>

\* dispatch has not been called
BasicIdle ==
    /\ helicopters_df = <<>>
    /\ available = <<>>
    /\ needed = 0
    /\ fi = 0
    /\ dispatch_log = <<>>

Init ==
    /\ fire_points \in Batches
    /\ helipads = HelipadCatalog
    /\ water_pts = WaterCatalog
    /\ BasicIdle
    /\ heli_df \in Fleets
    /\ heli_locs = init_heli_locs(heli_df)
    /\ pc = "start"
    /\ scenario_sets = <<>>
    /\ gi = 0
    /\ group = <<>>
    /\ legs = <<>>
    /\ model = None
    /\ solution_df = <<>>
    /\ result_df = <<>>
    /\ failed = {}

\* lines 117-123: nothing to do, the report is empty
Abort ==
    /\ pc = "start"
    /\ fire_points = <<>> \/ heli_df = <<>> \/ heli_locs = <<>>
    /\ pc' = "done"
    /\ UNCHANGED <<basic_vars, helipads, water_pts, fire_points, heli_df, heli_locs, scenario_sets, gi, group, legs, model,
                   solution_df, result_df, failed>>

\* mutant: dispatch_optimized checks the batch only, not the optimizer's data
GroupFires_unchecked ==
    /\ pc = "start"
    /\ fire_points # <<>>
    /\ scenario_sets' = group_by_time_proximity(fire_points)
    /\ pc' = "loop"
    /\ UNCHANGED <<basic_vars, helipads, water_pts, fire_points, heli_df, heli_locs, gi, group,
                   legs, model, solution_df, result_df, failed>>

\* lines 125-131: the fires are grouped
GroupFires ==
    /\ pc = "start"
    /\ ~(fire_points = <<>> \/ heli_df = <<>> \/ heli_locs = <<>>)
    /\ scenario_sets' = group_by_time_proximity(fire_points)
    /\ pc' = "loop"
    /\ UNCHANGED <<basic_vars, helipads, water_pts, fire_points, heli_df, heli_locs, gi, group, legs, model, solution_df,
                   result_df, failed>>

fire_coords_of(fire_group) ==
    [k \in 1..Len(fire_group) |->
        <<fire_points[fire_group[k] + 1].lat, fire_points[fire_group[k] + 1].lng>>]

difficulties_of(fire_group) ==
    [k \in 1..Len(fire_group) |-> fire_points[fire_group[k] + 1].intensity]

\* lines 142-145: d1, d2, d3 of a group
routes_of(fire_group) ==
    find_optimal_water_sources(fire_coords_of(fire_group), water_pts, heli_locs)

\* build_model reaching "return model, ...": the models the call can return for a
\* group, one for every optimal solution the solver can load
solved_models(fire_group, d) ==
    UNION {{[H |-> m.H, F |-> m.F, time_hf |-> m.time_hf, cost_hf |-> m.cost_hf,
             arrival_time_hf |-> m.arrival_time_hf, difficulties |-> m.difficulties,
             SUPP_CAPA |-> m.SUPP_CAPA, TIME_LIMIT |-> m.TIME_LIMIT,
             Assign |-> s.Assign, FireOn |-> s.FireOn, AssignFire |-> s.AssignFire] :
                s \in optimal_solutions(m)} :
           m \in {model_params(heli_df, heli_locs, fire_group,
                               difficulties_of(fire_group), d)}}

\* lines 155-173: the rows one solved group adds to the report
group_rows(fire_group, m) ==
    with_unassigned(parse_solution(heli_df, m, MinOf(Range(fire_group))), fire_group)

\* lines 134-176 when build_model returns a model: the routes are found, the
\* model is built, the solver ends with an optimal solution, the solution is
\* parsed, the unassigned fires get their placeholder rows and the rows are
\* appended to the report
SolveAndAppend ==
    /\ pc = "loop"
    /\ gi < Len(scenario_sets)
    /\ \E g \in {scenario_sets[gi + 1]} :
       \E d \in {routes_of(g)} :
           /\ g # <<>> /\ heli_df # <<>> /\ heli_locs # <<>>
           /\ group' = g
           /\ legs' = d
           /\ model' \in solved_models(g, d)
           /\ solution_df' = group_rows(g, model')
           /\ result_df' = result_df \o solution_df'
    /\ gi' = gi + 1
    /\ UNCHANGED <<basic_vars, helipads, water_pts, fire_points, heli_df, heli_locs, pc, scenario_sets, failed>>

\* mutant: a failed group ends the loop (break instead of continue)
SolveFails_break ==
    /\ pc = "loop"
    /\ gi < Len(scenario_sets)
    /\ group' = scenario_sets[gi + 1]
    /\ legs' = routes_of(scenario_sets[gi + 1])
    /\ model' = None
    /\ gi' = Len(scenario_sets)
    /\ failed' = failed \cup {gi + 1}
    /\ UNCHANGED <<basic_vars, helipads, water_pts, fire_points, heli_df, heli_locs, pc, scenario_sets, solution_df, result_df>>

\* lines 134-153, build_model returning None: the termination condition is not
\* optimal or the solve raises; the loop continues with the next group
SolveFails ==
    /\ pc = "loop"
    /\ gi < Len(scenario_sets)
    /\ group' = scenario_sets[gi + 1]
    /\ legs' = routes_of(scenario_sets[gi + 1])
    /\ model' = None
    /\ gi' = gi + 1
    /\ failed' = failed \cup {gi + 1}
    /\ UNCHANGED <<basic_vars, helipads, water_pts, fire_points, heli_df, heli_locs, pc, scenario_sets, solution_df, result_df>>

\* lines 178-184: the report is sorted and returned
Finalize ==
    /\ pc = "loop"
    /\ gi = Len(scenario_sets)
    /\ result_df' = finalize(result_df)
    /\ pc' = "done"
    /\ UNCHANGED <<basic_vars, helipads, water_pts, fire_points, heli_df, heli_locs, scenario_sets, gi, group, legs, model,
                   solution_df, failed>>

Next == Abort \/ GroupFires \/ SolveAndAppend \/ SolveFails \/ Finalize

Spec == Init /\ [][Next]_vars

\* the batch is given in the order of its timestamps
InTimeOrder(batch) ==
    \A i \in 1..(Len(batch) - 1) :
        parse_datetime(batch[i].date, batch[i].time)
            <= parse_datetime(batch[i + 1].date, batch[i + 1].time)

\* the batches load_fires can return from a file whose rows are in time order
BatchesInTimeOrder == {batch \in Batches : InTimeOrder(batch)}

\* dispatch_optimized is called on a batch in time order that forms at most one
\* scenario group: the group's model is built from the whole batch
InitGroup ==
    /\ Init
    /\ InTimeOrder(fire_points)
    /\ Len(group_by_time_proximity(fire_points)) <= 1

SpecGroup == InitGroup /\ [][Next]_vars

---------------------------------------------------------------------------
(* BasicDispatcher.dispatch as a state machine                             *)

\* a call of dispatch can begin: none has been made, or the last has returned
BasicCallable == pc \in {"basic", "returned"}

\* lines 26-33: no fire, or no helicopter data: an empty frame is returned
BasicAbort ==
    /\ BasicCallable
    /\ IF fire_points = <<>> THEN helicopters_df' = helicopters_df
       ELSE helicopters_df' = <<>> /\ <<>> \in HeliInfoTables
    /\ dispatch_log' = <<>>
    /\ pc' = "returned"
    /\ UNCHANGED <<fire_points, optimized_vars, available, needed, fi>>

\* mutant: the availability left by the call before is kept
BasicStart_keep ==
    /\ BasicCallable
    /\ fire_points # <<>>
    /\ \E table \in HeliInfoTables \ {<<>>} :
          /\ helicopters_df' = table
          /\ available' = IF DOMAIN available = DOMAIN table THEN available
                          ELSE [b \in 1..Len(table) |-> table[b].helicopters]
    /\ needed' = 0
    /\ fi' = 0
    /\ dispatch_log' = <<>>
    /\ pc' = "basic_loop"
    /\ UNCHANGED <<fire_points, optimized_vars>>

\* lines 29-43: the helicopter data is loaded and copied, every base is
\* available with its whole count, the log is empty
BasicStart ==
    /\ BasicCallable
    /\ fire_points # <<>>
    /\ \E table \in HeliInfoTables \ {<<>>} :
          /\ helicopters_df' = table
          /\ available' = [b \in 1..Len(table) |-> table[b].helicopters]
    /\ needed' = 0
    /\ fi' = 0
    /\ dispatch_log' = <<>>
    /\ pc' = "basic_loop"
    /\ UNCHANGED <<fire_points, optimized_vars>>

\* the loop over the fires is at its head with a fire left
BasicAtFire == pc = "basic_loop" /\ fi < Len(fire_points)

\* lines 46-69: no base is in range of the fire
NoBaseInRange ==
    /\ BasicAtFire
    /\ near_rows(fire_points[fi + 1], helicopters_df) = {}
    /\ needed' \in fire_needs_options
    /\ dispatch_log' = Append(dispatch_log, marker_row(fire_points[fi + 1], NoInitialResponse))
    /\ fi' = fi + 1
    /\ UNCHANGED <<fire_points, optimized_vars, pc, helicopters_df, available>>

\* mutant: what the in-range bases hold is sent although it is not enough
NotEnoughAvailable_partial ==
    /\ BasicAtFire
    /\ \E near \in {near_rows(fire_points[fi + 1], helicopters_df)} :
       \E n \in fire_needs_options :
       \E order \in near_heli_orders(fire_points[fi + 1], helicopters_df) :
       \E out \in {allocate_loop(fire_points[fi + 1], helicopters_df, order, 1, n,
                                  available, <<available, <<>>>>)} :
          /\ near # {}
          /\ available_sum(near, available) < n
          /\ needed' = n
          /\ available' = out[1]
          /\ dispatch_log' = Append(dispatch_log,
                                    marker_row(fire_points[fi + 1], NoAdditionalDispatch))
    /\ fi' = fi + 1
    /\ UNCHANGED <<fire_points, optimized_vars, pc, helicopters_df>>

\* lines 46-59 and 71-79: the in-range bases hold fewer helicopters than needed
NotEnoughAvailable ==
    /\ BasicAtFire
    /\ \E near \in {near_rows(fire_points[fi + 1], helicopters_df)} :
       \E n \in fire_needs_options :
          /\ near # {}
          /\ available_sum(near, available) < n
          /\ needed' = n
    /\ dispatch_log' = Append(dispatch_log,
                              marker_row(fire_points[fi + 1], NoAdditionalDispatch))
    /\ fi' = fi + 1
    /\ UNCHANGED <<fire_points, optimized_vars, pc, helicopters_df, available>>

\* lines 46-59 and 81-96: the in-range bases are visited in the order of
\* near_heli and send until the need is met
Allocate ==
    /\ BasicAtFire
    /\ \E near \in {near_rows(fire_points[fi + 1], helicopters_df)} :
       \E n \in fire_needs_options :
       \E order \in near_heli_orders(fire_points[fi + 1], helicopters_df) :
       \E out \in {allocate_loop(fire_points[fi + 1], helicopters_df, order, 1, n,
                                  available, <<available, <<>>>>)} :
          /\ near # {}
          /\ ~(available_sum(near, available) < n)
          /\ needed' = n
          /\ available' = out[1]
          /\ dispatch_log' = dispatch_log \o out[2]
    /\ fi' = fi + 1
    /\ UNCHANGED <<fire_points, optimized_vars, pc, helicopters_df>>

\* line 98: the log is returned
BasicReturn ==
    /\ pc = "basic_loop"
    /\ fi = Len(fire_points)
    /\ pc' = "returned"
    /\ UNCHANGED <<fire_points, optimized_vars, basic_vars>>

NextBasic ==
    BasicAbort \/ BasicStart \/ NoBaseInRange \/ NotEnoughAvailable \/ Allocate \/ BasicReturn

\* the optimizer as BasicDispatcher leaves it: not constructed
OptimizerIdle ==
    /\ helipads = <<>>
    /\ water_pts = <<>>
    /\ heli_df = <<>>
    /\ heli_locs = <<>>
    /\ scenario_sets = <<>>
    /\ gi = 0
    /\ group = <<>>
    /\ legs = <<>>
    /\ model = None
    /\ solution_df = <<>>
    /\ result_df = <<>>
    /\ failed = {}

InitBasic ==
    /\ fire_points \in Batches
    /\ pc = "basic"
    /\ BasicIdle
    /\ OptimizerIdle

\* calls of BasicDispatcher.dispatch on one batch, one after the other
SpecBasic == InitBasic /\ [][NextBasic]_vars

---------------------------------------------------------------------------
(* Properties                                                              *)

\* the model of the current group is solved: build_model returned a model
Solved == model # None

\* the original index and the record of the fire at position f of the current group
fire_at(f) == group[f + 1]
fire_rec(f) == fire_points[fire_at(f) + 1]

\* leg1/speedToWater + leg2/speedLoaded <= minutes, without dividing
ArrivesWithin(h, f, minutes) ==
    legs[h][f][1] * heli_df[h + 1].speed_w2 + legs[h][f][2] * heli_df[h + 1].speed_w1
        <= minutes * heli_df[h + 1].speed_w1 * heli_df[h + 1].speed_w2

\* leg1/speedToWater + leg2/speedLoaded + leg3/speedToWater <= minutes, without dividing
TravelsWithin(h, f, minutes) ==
    (legs[h][f][1] + legs[h][f][3]) * heli_df[h + 1].speed_w2
            + legs[h][f][2] * heli_df[h + 1].speed_w1
        <= minutes * heli_df[h + 1].speed_w1 * heli_df[h + 1].speed_w2

\* the suppression capacity the solution s assigns to the fire at position f
AssignedCapacity(s, f) ==
    SumTo([h \in model.H |-> heli_df[h + 1].supp_capa * s.Assign[<<h, f>>]],
          Cardinality(model.H))

\* C1: in the solution the solver returns for a group, Assign[h,f] = 1 implies that
\* helicopter h reaches fire f within golden_time_minutes and that its whole trip
\* fits in its time limit.
C1_HardCutoffs ==
    Solved =>
        \A h \in model.H : \A f \in model.F :
            model.Assign[<<h, f>>] = 1 =>
                /\ ArrivesWithin(h, f, golden_time_minutes)
                /\ TravelsWithin(h, f, heli_df[h + 1].time_limit)

\* a solved group with a dispatched helicopter, a pair beyond the golden time and a
\* pair within the golden time but beyond the time limit
C1_Witness ==
    /\ Solved
    /\ \E h \in model.H : \E f \in model.F : model.Assign[<<h, f>>] = 1
    /\ \E h \in model.H : \E f \in model.F : ~ArrivesWithin(h, f, golden_time_minutes)
    /\ \E h \in model.H : \E f \in model.F :
          /\ ArrivesWithin(h, f, golden_time_minutes)
          /\ ~TravelsWithin(h, f, heli_df[h + 1].time_limit)

\* C2: in every feasible solution of a group's model, a fire with FireOn[f] = 1 has
\* helicopters assigned whose suppression capacities sum to at least its intensity.
C2_SuppressionAdequate ==
    Solved =>
        \A s \in feasible_solutions(model) : \A f \in model.F :
            s.FireOn[f] = 1 => AssignedCapacity(s, f) >= fire_rec(f).intensity

\* the returned solution addresses a fire that no single helicopter of the fleet
\* covers: it takes the sum of two
C2_Witness ==
    /\ Solved
    /\ \E f \in model.F :
          /\ model.FireOn[f] = 1
          /\ \A h \in model.H : heli_df[h + 1].supp_capa < fire_rec(f).intensity
          /\ Cardinality({h \in model.H : model.Assign[<<h, f>>] = 1}) = 2

\* the rows of solution_df that report a helicopter
AssignmentRows == {i \in 1..Len(solution_df) : solution_df[i].HeliModel # Unaddressed}

\* C3: in one scenario group a helicopter is assigned to at most one fire, and
\* the rows parsed for the group hold at most one row per helicopter.
C3_OneFirePerHelicopter ==
    Solved =>
        /\ \A h \in model.H :
              Cardinality({f \in model.F : model.Assign[<<h, f>>] = 1}) <= 1
        /\ \A i \in AssignmentRows : \A j \in AssignmentRows :
              solution_df[i].HelIndex = solution_df[j].HelIndex => i = j

\* a group of several fires in which two helicopters are dispatched
C3_Witness ==
    /\ Solved
    /\ Len(group) >= 2
    /\ Cardinality(AssignmentRows) >= 2

\* the timestamp of the fire with original index i, in minutes
MinutesOf(i) ==
    fire_points[i + 1].date * 1440 + fire_points[i + 1].time[1] * 60
        + fire_points[i + 1].time[2]

Grouped == pc # "start" /\ fire_points # <<>>

\* C4: inside every group the timestamps are non-decreasing and consecutive fires
\* are at most scenario_time_window_minutes apart, and the first fire of a group
\* comes more than the window after the last fire of the group before it.
C4_ChainGrouping ==
    Grouped =>
        /\ \A g \in 1..Len(scenario_sets) : \A j \in 1..(Len(scenario_sets[g]) - 1) :
              /\ MinutesOf(scenario_sets[g][j]) <= MinutesOf(scenario_sets[g][j + 1])
              /\ MinutesOf(scenario_sets[g][j + 1]) - MinutesOf(scenario_sets[g][j])
                    <= scenario_time_window_minutes
        /\ \A g \in 1..(Len(scenario_sets) - 1) :
              /\ scenario_sets[g] # <<>> /\ scenario_sets[g + 1] # <<>>
              /\ MinutesOf(scenario_sets[g + 1][1])
                    - MinutesOf(scenario_sets[g][Len(scenario_sets[g])])
                        > scenario_time_window_minutes

\* a group of at least three fires that spans more than one window, two of them
\* exactly one window apart
C4_Witness ==
    /\ Grouped
    /\ Len(scenario_sets) >= 1
    /\ Len(scenario_sets[1]) >= 3
    /\ MinutesOf(scenario_sets[1][Len(scenario_sets[1])]) - MinutesOf(scenario_sets[1][1])
          > scenario_time_window_minutes
    /\ MinutesOf(scenario_sets[1][2]) - MinutesOf(scenario_sets[1][1])
          = scenario_time_window_minutes

\* the places <<g, j>> of the groups
Places ==
    {p \in (1..Len(scenario_sets)) \X (1..MaxFires) : p[2] <= Len(scenario_sets[p[1]])}

\* C5: the groups partition the batch: no group is empty, every original index
\* 0..n-1 stands at exactly one place of exactly one group, and the members are
\* indices into the batch as given: read through them, the timestamps ascend.
C5_GroupsPartitionBatch ==
    Grouped =>
        /\ \A g \in 1..Len(scenario_sets) : scenario_sets[g] # <<>>
        /\ \A p \in Places : scenario_sets[p[1]][p[2]] \in 0..(Len(fire_points) - 1)
        /\ \A i \in 0..(Len(fire_points) - 1) :
              Cardinality({p \in Places : scenario_sets[p[1]][p[2]] = i}) = 1
        /\ \A p \in Places : \A q \in Places :
              (p[1] < q[1] \/ (p[1] = q[1] /\ p[2] < q[2])) =>
                  MinutesOf(scenario_sets[p[1]][p[2]]) <= MinutesOf(scenario_sets[q[1]][q[2]])

\* a batch not given in time order, split in several groups, one of which holds
\* indices that are not consecutive and do not ascend
C5_Witness ==
    /\ Grouped
    /\ Len(scenario_sets) >= 2
    /\ \E g \in 1..Len(scenario_sets) : \E j \in 1..(Len(scenario_sets[g]) - 1) :
          scenario_sets[g][j] > scenario_sets[g][j + 1] + 1

\* C6: every row emitted for a helicopter dispatched to the fire at position f of
\* the group reports that fire's original index (shown 1-based once the report is
\* finalized), whatever the order of the batch.
C6_FireIdIsOriginalIndex ==
    Solved =>
        \A h \in model.H : \A f \in model.F :
            model.Assign[<<h, f>>] = 1 =>
                \E i \in AssignmentRows :
                    /\ solution_df[i].HelIndex = h + 1
                    /\ solution_df[i].FireIndex = fire_at(f)

\* C7: when a group's model solves to optimal, every fire of the group that no
\* helicopter is assigned to gets a placeholder row in the rows the group adds
\* to the report, also when no fire of the group has an assignment.
C7_UnassignedGetPlaceholder ==
    Solved =>
        \A f \in model.F :
            (\A h \in model.H : model.Assign[<<h, f>>] = 0) =>
                \E i \in 1..Len(solution_df) :
                    /\ solution_df[i].HeliModel = Unaddressed
                    /\ solution_df[i].FireIndex = fire_at(f)
                    /\ \E k \in 1..Len(result_df) : result_df[k] = solution_df[i]

\* C8: a group whose solve does not end optimal adds no row to the report; the
\* loop goes on with the next group, ends only after the last one, and a group
\* that does solve adds exactly the rows it yields on its own, whatever happened
\* to the groups before it.
C8_FailureIsolated ==
    [][ /\ (pc = "loop" /\ pc' = "loop") =>
              /\ gi' = gi + 1
              /\ group' = scenario_sets[gi + 1]
              /\ legs' = routes_of(group')
              /\ scenario_sets' = scenario_sets
        /\ (pc = "loop" /\ pc' = "done") =>
              /\ gi = Len(scenario_sets)
              /\ result_df' = finalize(result_df)
        /\ (pc = "loop" /\ pc' = "loop" /\ model' = None) => result_df' = result_df
        /\ (pc = "loop" /\ pc' = "loop" /\ model' # None) =>
              \E m \in solved_models(group', legs') :
                  result_df' = result_df \o group_rows(group', m)
      ]_vars

\* the second of three groups failed; the first and the third put rows in the report
C8_Witness ==
    /\ pc = "done"
    /\ Len(scenario_sets) = 3
    /\ failed = {2}
    /\ solution_df # <<>>
    /\ Len(result_df) > Len(solution_df)

\* C9: when the solve of a group does not end optimal, every fire of that group
\* is listed in the final report with a placeholder row.
C9_FailedGroupListed ==
    pc = "done" =>
        \A g \in failed : \A j \in 1..Len(scenario_sets[g]) :
            \E k \in 1..Len(result_df) :
                /\ result_df[k].HeliModel = Unaddressed
                /\ result_df[k].FireIndex = scenario_sets[g][j] + 1

\* the fuel term of the objective for the solution s, in 1/TimeScale units
FuelCost(s) ==
    SumTo([h \in model.H |->
              SumTo([f \in model.F |-> model.cost_hf[<<h, f>>] * s.AssignFire[<<h, f>>]],
                    Cardinality(model.F))], Cardinality(model.H))

\* the number of fires the solution s marks as addressed
Addressed(s) == SumTo([f \in model.F |-> s.FireOn[f]], Cardinality(model.F))

\* big_penalty is strictly larger than the fuel cost of every feasible solution
PenaltyDominates(feas) == \A s \in feas : big_penalty * TimeScale > FuelCost(s)

\* the group is one fire, the fleet one helicopter that passes both cut-offs and
\* whose suppression capacity covers the fire's intensity
OneCapableHelicopter ==
    /\ Len(group) = 1
    /\ Len(heli_df) = 1
    /\ Len(heli_locs) = 1
    /\ ArrivesWithin(0, 0, golden_time_minutes)
    /\ TravelsWithin(0, 0, heli_df[1].time_limit)
    /\ heli_df[1].supp_capa >= fire_rec(0).intensity

\* solution_df is exactly one row: helicopter 1 dispatched to the fire of the group
OneAssignment ==
    /\ Len(solution_df) = 1
    /\ solution_df[1].HeliModel # Unaddressed
    /\ solution_df[1].HelIndex = 1
    /\ solution_df[1].FireIndex = fire_at(0)

C10_WitnessSeveral ==
    /\ Solved
    /\ PenaltyDominates(feasible_solutions(model))
    /\ Len(group) >= 2
    /\ Addressed(model) >= 1
    /\ Addressed(model) < Len(group)

---------------------------------------------------------------------------
(* Both entry points, with data files that can be missing                  *)

\* WildfireDispatcher() constructed over files of which any can be missing or
\* hold a base index outside the helipads, then dispatch_optimized is called on
\* a batch in time order
InitOptimizedData ==
    /\ fire_points \in BatchesInTimeOrder
    /\ helipads \in HelipadTables
    /\ water_pts \in WaterTables
    /\ BasicIdle
    /\ heli_df \in Fleets \cup {<<>>}
    /\ heli_locs = init_heli_locs(heli_df)
    /\ pc = "start"
    /\ scenario_sets = <<>>
    /\ gi = 0
    /\ group = <<>>
    /\ legs = <<>>
    /\ model = None
    /\ solution_df = <<>>
    /\ result_df = <<>>
    /\ failed = {}

\* one of the two entry points is called
InitData == InitOptimizedData \/ InitBasic

NextData == Next \/ NextBasic

SpecData == InitData /\ [][NextData]_vars

---------------------------------------------------------------------------
(* Properties of BasicDispatcher.dispatch                                  *)

\* the step processes one fire of the batch
FireStep == pc = "basic_loop" /\ pc' = "basic_loop" /\ fi' = fi + 1

\* the rows the step adds to the log
NewRows == SubSeq(dispatch_log', Len(dispatch_log) + 1, Len(dispatch_log'))

\* the bases within max_helicopter_range_km of the fire with number i (1-based)
BasesInRange(i) ==
    {b \in 1..Len(helicopters_df) :
        Abs(fire_points[i].lat - helicopters_df[b].lat)
            + Abs(fire_points[i].lng - helicopters_df[b].lng) <= max_helicopter_range_km}

\* the distance of base b from the fire with number i
BaseDistance(i, b) ==
    Abs(fire_points[i].lat - helicopters_df[b].lat)
        + Abs(fire_points[i].lng - helicopters_df[b].lng)

\* what the bases of B hold together according to avail
Holding(B, avail) ==
    SumTo([k \in 0..(Len(helicopters_df) - 1) |-> IF k + 1 \in B THEN avail[k + 1] ELSE 0],
          Len(helicopters_df))

\* the row is a marker row of the given kind for the fire with number i
IsMarker(row, i, kind) ==
    /\ row.FireIndex = fire_points[i].name
    /\ row.HeliBase = kind
    /\ row.HeliCount = <<0>>

\* C11: when the bases in range of a fire hold fewer helicopters than the count
\* sampled for it, the fire adds exactly one no-additional-dispatch marker row to
\* the log and no base's availability changes.
C11_AllOrNothing ==
    [][ (/\ FireStep
         /\ BasesInRange(fi + 1) # {}
         /\ Holding(BasesInRange(fi + 1), available) < needed')
            => /\ Len(NewRows) = 1
               /\ IsMarker(NewRows[1], fi + 1, NoAdditionalDispatch)
               /\ available' = available
      ]_vars

\* the fire processed last got the no-additional-dispatch marker while a base in
\* its range still holds a helicopter
C11_Witness ==
    /\ pc = "basic_loop"
    /\ fi >= 1
    /\ dispatch_log # <<>>
    /\ IsMarker(dispatch_log[Len(dispatch_log)], fi, NoAdditionalDispatch)
    /\ \E b \in BasesInRange(fi) : available[b] > 0
    /\ Holding(BasesInRange(fi), available) < needed

\* C12: a fire with no base within max_helicopter_range_km adds exactly one
\* no-initial-response marker row with count 0 and no base's availability
\* changes, whatever the other bases hold and whatever count was sampled.
C12_OutOfRangeMarker ==
    [][ (FireStep /\ BasesInRange(fi + 1) = {})
            => /\ Len(NewRows) = 1
               /\ IsMarker(NewRows[1], fi + 1, NoInitialResponse)
               /\ available' = available
      ]_vars

\* the fire processed last has no base in range and got the marker, while the
\* bases out of range hold at least the sampled count
C12_Witness ==
    /\ pc = "basic_loop"
    /\ fi >= 1
    /\ dispatch_log # <<>>
    /\ BasesInRange(fi) = {}
    /\ IsMarker(dispatch_log[Len(dispatch_log)], fi, NoInitialResponse)
    /\ Holding(1..Len(helicopters_df), available) >= needed
    /\ needed >= 2

\* C13: during a run every base's availability stays between 0 and the base's
\* helicopter count and never grows from one fire to the next, and every run
\* starts with every base at its helicopter count, whatever an earlier run left.
C13_LedgerDepletes ==
    [][ /\ pc' = "basic_loop" =>
              /\ DOMAIN available' = 1..Len(helicopters_df')
              /\ \A b \in 1..Len(helicopters_df') :
                    /\ 0 <= available'[b]
                    /\ available'[b] <= helicopters_df'[b].helicopters
        /\ (pc = "basic_loop" /\ pc' = "basic_loop") =>
              /\ helicopters_df' = helicopters_df
              /\ \A b \in 1..Len(helicopters_df) : available'[b] <= available[b]
        /\ (pc # "basic_loop" /\ pc' = "basic_loop") =>
              \A b \in 1..Len(helicopters_df') :
                  available'[b] = helicopters_df'[b].helicopters
      ]_vars

\* a run has returned and left one base empty and another partly used: the
\* next run starts from this state
C13_Witness ==
    /\ pc = "returned"
    /\ helicopters_df # <<>>
    /\ fi >= 2
    /\ \E b \in 1..Len(helicopters_df) : available[b] = 0
    /\ \E b \in 1..Len(helicopters_df) :
          0 < available[b] /\ available[b] < helicopters_df[b].helicopters

\* the base a contribution row names
BaseOfRow(row) == CHOOSE b \in 1..Len(helicopters_df) : helicopters_df[b].name = row.HeliBase

\* what the step takes from base b
Sent(b) == available[b] - available'[b]

\* the counts of the rows before row k, added up
SentBefore(rows, k) == SumTo([j \in 0..(k - 2) |-> rows[j + 1].HeliCount[1]], k - 1)

\* C18: when the bases in range hold at least the sampled count, the fire's rows
\* name bases in range in ascending distance, one row per contributing base, each
\* sending min(remaining need, its availability); the counts add up to the sampled
\* count, and a base sends only when every nearer base in range is left empty.
C18_NearestFirst ==
    [][ (/\ FireStep
         /\ BasesInRange(fi + 1) # {}
         /\ Holding(BasesInRange(fi + 1), available) >= needed')
            => \A R \in {BasesInRange(fi + 1)} : \A rows \in {NewRows} :
                  /\ \A b \in 1..Len(helicopters_df) :
                        Sent(b) >= 0 /\ (b \notin R => Sent(b) = 0)
                  /\ Holding(R, available) - Holding(R, available') = needed'
                  /\ SentBefore(rows, Len(rows) + 1) = needed'
                  /\ Len(rows) = Cardinality({b \in R : Sent(b) > 0})
                  /\ \A k \in 1..Len(rows) :
                        /\ \E b \in R : rows[k].HeliBase = helicopters_df[b].name
                        /\ \A b \in {BaseOfRow(rows[k])} :
                              /\ b \in R
                              /\ Sent(b) > 0
                              /\ rows[k] = [FireIndex |-> fire_points[fi + 1].name,
                                            HeliBase |-> helicopters_df[b].name,
                                            HeliModel |-> helicopters_df[b].model,
                                            HeliCount |-> <<Sent(b), helicopters_df[b].helicopters>>]
                              /\ Sent(b) = IF needed' - SentBefore(rows, k) < available[b]
                                           THEN needed' - SentBefore(rows, k) ELSE available[b]
                              /\ \A c \in R :
                                    BaseDistance(fi + 1, c) < BaseDistance(fi + 1, b)
                                        => available'[c] = 0
                  /\ \A k \in 1..Len(rows) : \A l \in 1..Len(rows) :
                        k < l => /\ rows[k].HeliBase # rows[l].HeliBase
                                 /\ BaseDistance(fi + 1, BaseOfRow(rows[k]))
                                       <= BaseDistance(fi + 1, BaseOfRow(rows[l]))
      ]_vars

\* the first fire of the run needed three helicopters and got them from two
\* bases, the nearer one drained first
C18_Witness ==
    /\ pc = "basic_loop"
    /\ fi = 1
    /\ needed = 3
    /\ Len(dispatch_log) = 2
    /\ dispatch_log[1].HeliBase # dispatch_log[2].HeliBase
    /\ dispatch_log[1].HeliCount[1] + dispatch_log[2].HeliCount[1] = 3
    /\ BaseDistance(1, BaseOfRow(dispatch_log[1])) < BaseDistance(1, BaseOfRow(dispatch_log[2]))
    /\ available[BaseOfRow(dispatch_log[1])] = 0

---------------------------------------------------------------------------
(* Properties of the optimized path over missing or invalid data           *)

\* the loop has computed the routes of the current group
Routed == pc \in {"loop", "done"} /\ gi >= 1

\* the coordinates of the fire at position f of the current group
FireLoc(f) == <<fire_rec(f).lat, fire_rec(f).lng>>

\* the distance between two coordinates
Dist(a, b) == Abs(a[1] - b[1]) + Abs(a[2] - b[2])

\* C14: with an empty water-source catalog the router returns matrices of shape
\* [helicopter][fire] whose legs are non-negative, the third being the distance
\* from the fire to the helicopter and the first two the legs through the dummy
\* source of one fire of the group, offset from that fire by the fixed epsilon in
\* latitude and in longitude.
C14_DummySources ==
    (Routed /\ water_pts = <<>>) =>
        /\ DOMAIN legs = 0..(Len(heli_locs) - 1)
        /\ \A h \in DOMAIN legs :
              /\ DOMAIN legs[h] = 0..(Len(group) - 1)
              /\ \A f \in DOMAIN legs[h] :
                    /\ \A i \in 1..3 : legs[h][f][i] >= 0
                    /\ legs[h][f][3] = Dist(FireLoc(f), heli_locs[h + 1])
                    /\ \E k \in 0..(Len(group) - 1) :
                       \E dummy \in {<<FireLoc(k)[1] + dummy_offset,
                                        FireLoc(k)[2] + dummy_offset>>} :
                          /\ legs[h][f][1] = Dist(heli_locs[h + 1], dummy)
                          /\ legs[h][f][2] = Dist(FireLoc(f), dummy)

\* a group of several fires routed for two helicopters without any water source
C14_Witness ==
    /\ Routed
    /\ water_pts = <<>>
    /\ Len(group) >= 2
    /\ Len(heli_locs) = 2
    /\ Solved

\* the helicopters (numbered from 1) whose base index is inside the helipads
ValidHelicopters ==
    {k \in 1..Len(heli_df) : 0 <= heli_df[k].base /\ heli_df[k].base < Len(helipads)}

\* C15: every helicopter whose base index is valid has a location and takes part
\* in the optimization, wherever a helicopter with an invalid base index stands
\* in the fleet: the run is not given up while a helicopter with a valid base is
\* there.
C15_ValidHelicoptersTakePart ==
    /\ Len(heli_locs) = Cardinality(ValidHelicopters)
    /\ Solved => Cardinality(model.H) = Cardinality(ValidHelicopters)
    /\ (pc = "done" /\ fire_points # <<>> /\ ValidHelicopters # {}) => gi >= 1

\* fleet or base data is missing
FleetOrBasesMissing == heli_df = <<>> \/ helipads = <<>>

\* dispatch_optimized gave up before grouping: empty report, no group solved
Aborted ==
    /\ result_df = <<>>
    /\ scenario_sets = <<>>
    /\ gi = 0
    /\ model = None

\* dispatch returned an empty log whenever the helicopter data was empty
BasicAbortsOnEmptyFleet ==
    (pc = "returned" /\ helicopters_df = <<>>) => dispatch_log = <<>>

\* C16 as stated: with fleet, base or water-source data empty the optimized path
\* aborts with an empty report and no group solved; with empty fleet data the
\* greedy path returns an empty log.
C16_MissingDataAbortsAsStated ==
    /\ (pc = "done" /\ (FleetOrBasesMissing \/ water_pts = <<>>)) => Aborted
    /\ (FleetOrBasesMissing \/ water_pts = <<>>) => pc # "loop"
    /\ BasicAbortsOnEmptyFleet

\* C16 (amended): with fleet or base data empty the optimized path aborts with an
\* empty report and no group solved; empty water-source data alone does not make
\* it abort: every group of the batch is processed; with empty fleet data the
\* greedy path returns an empty log.
C16_MissingDataAborts ==
    /\ (pc = "done" /\ FleetOrBasesMissing) => Aborted
    /\ FleetOrBasesMissing => pc # "loop"
    /\ (pc = "done" /\ water_pts = <<>> /\ fire_points # <<>> /\ heli_locs # <<>>) =>
          /\ scenario_sets # <<>>
          /\ gi = Len(scenario_sets)
    /\ BasicAbortsOnEmptyFleet

\* dispatch_optimized has returned the empty report for a batch of fires and a
\* fleet because the helipad data is missing
C16_Witness ==
    /\ pc = "done"
    /\ fire_points # <<>>
    /\ heli_df # <<>>
    /\ helipads = <<>>
    /\ water_pts # <<>>
    /\ Aborted

\* dispatch_optimized has solved the groups of a batch although the water-source
\* data is missing
C16_WitnessWater ==
    /\ pc = "done"
    /\ water_pts = <<>>
    /\ gi >= 2
    /\ Solved

---------------------------------------------------------------------------
(* Properties of the router and of the assignment model                    *)

\* water source v comes before water source w in ascending distance from the
\* fire at position f, sources at the same distance in catalog order
NearerSource(f, v, w) ==
    \/ Dist(FireLoc(f), water_pts[v]) < Dist(FireLoc(f), water_pts[w])
    \/ Dist(FireLoc(f), water_pts[v]) = Dist(FireLoc(f), water_pts[w]) /\ v < w

\* the (at most) 3 water sources nearest to the fire at position f
Nearest3(f) ==
    {w \in 1..Len(water_pts) :
        Cardinality({v \in 1..Len(water_pts) : NearerSource(f, v, w)}) < 3}

\* the round trip of helicopter h over water source w to the fire at position f
RoundTrip(h, f, w) ==
    Dist(heli_locs[h + 1], water_pts[w]) + Dist(water_pts[w], FireLoc(f))
        + Dist(FireLoc(f), heli_locs[h + 1])

\* the source the rule picks among the candidates N: the first with the smallest
\* round trip
PickedSource(N, h, f) ==
    CHOOSE w \in N :
        \A v \in N :
            /\ RoundTrip(h, f, w) <= RoundTrip(h, f, v)
            /\ NearerSource(f, v, w) => RoundTrip(h, f, w) < RoundTrip(h, f, v)

\* C17: the legs stored at [h][f] are the three legs over one water source: of
\* the 3 sources nearest to the fire, taken in ascending distance with ties in
\* catalog order, the first that minimizes the round trip; a source outside the
\* 3 nearest is never taken.
C17_BestOfNearest3 ==
    (Routed /\ water_pts # <<>>) =>
        \A f \in 0..(Len(group) - 1) : \A N \in {Nearest3(f)} :
            \A h \in 0..(Len(heli_locs) - 1) : \A w \in {PickedSource(N, h, f)} :
                /\ w \in N
                /\ \A v \in N : RoundTrip(h, f, w) <= RoundTrip(h, f, v)
                /\ legs[h][f] = <<Dist(heli_locs[h + 1], water_pts[w]),
                                  Dist(FireLoc(f), water_pts[w]),
                                  Dist(FireLoc(f), heli_locs[h + 1])>>

\* for some helicopter and fire two of the 3 nearest sources tie on the smallest
\* round trip with different legs, and for some a source outside the 3 nearest
\* has a smaller round trip than the one taken
C17_Witness ==
    /\ Routed
    /\ water_pts # <<>>
    /\ \E h \in 0..(Len(heli_locs) - 1) : \E f \in 0..(Len(group) - 1) :
          \E v \in Nearest3(f) :
              /\ RoundTrip(h, f, v) = legs[h][f][1] + legs[h][f][2] + legs[h][f][3]
              /\ Dist(FireLoc(f), water_pts[v]) # legs[h][f][2]
    /\ \E h \in 0..(Len(heli_locs) - 1) : \E f \in 0..(Len(group) - 1) :
          \E u \in (1..Len(water_pts)) \ Nearest3(f) :
              RoundTrip(h, f, u) < legs[h][f][1] + legs[h][f][2] + legs[h][f][3]

\* C19: for all binary values of Assign[h,f], FireOn[f] and AssignFire[h,f] the
\* three linearization inequalities hold together exactly when AssignFire[h,f] is
\* the product Assign[h,f] * FireOn[f], and so it is in every solution the solver
\* returns.
C19_LinearizationExact ==
    /\ \A assign \in {0, 1} : \A fireon \in {0, 1} : \A v \in {0, 1} :
          (/\ assignfire_upper_bound1(v, assign)
           /\ assignfire_upper_bound2(v, fireon)
           /\ assignfire_lower_bound(v, assign, fireon)) <=> (v = assign * fireon)
    /\ Solved =>
          \A p \in model.H \X model.F :
              model.AssignFire[p] = model.Assign[p] * model.FireOn[p[2]]

\* a returned solution in which the product is 1 for one pair and 0 for another
\* pair of the same fire
C19_Witness ==
    /\ Solved
    /\ \E p \in model.H \X model.F : \E q \in model.H \X model.F :
          /\ p[2] = q[2]
          /\ model.Assign[p] = 1 /\ model.FireOn[p[2]] = 1 /\ model.AssignFire[p] = 1
          /\ model.Assign[q] = 0 /\ model.AssignFire[q] = 0

\* a returned solution in which the product is 0 for a pair with Assign = 1
C19_WitnessUnaddressed ==
    /\ Solved
    /\ \E p \in model.H \X model.F :
          model.Assign[p] = 1 /\ model.FireOn[p[2]] = 0 /\ model.AssignFire[p] = 0

\* C20: in the solution the solver returns for a group, a helicopter is assigned
\* only to a fire the model addresses: Assign[h,f] = 1 implies FireOn[f] = 1, so
\* every fire reported with a helicopter row has assigned suppression capacity of
\* at least its intensity.
C20_AssignedOnlyToAddressed ==
    Solved =>
        \A h \in model.H : \A f \in model.F :
            model.Assign[<<h, f>>] = 1 =>
                /\ model.FireOn[f] = 1
                /\ AssignedCapacity(model, f) >= fire_rec(f).intensity

\* every row the group just processed added to the report carries the original
\* index of a fire of that group
RowsOfGroup ==
    Solved => \A i \in 1..Len(solution_df) : solution_df[i].FireIndex \in Range(group)

\* no fire id of the report has both a helicopter row and a placeholder row
NoDoubleReport ==
    \A i \in 1..Len(result_df) : \A j \in 1..Len(result_df) :
        result_df[i].FireIndex = result_df[j].FireIndex =>
            (result_df[i].HeliModel = Unaddressed <=> result_df[j].HeliModel = Unaddressed)

\* C21: every row added to the report while a scenario group is processed carries
\* a fire id that is a member of that group, and no fire of the batch ends up with
\* both an Assignment row and an unaddressed placeholder row, whatever the order
\* of the batch.
C21_RowsBelongToGroup ==
    /\ RowsOfGroup
    /\ NoDoubleReport

====
